---- MODULE Spec2Model ----
(***************************************************************************)
(* A model of the keyword-extraction evaluation harness (key_eval.py and   *)
(* its earlier variant KeyEval.py): the scoring functions, the keyword     *)
(* parser of get_key_abs and the per-document loop of eval_file.           *)
(*                                                                         *)
(* A Python str is the sequence of the code points of its characters       *)
(* (ord of each), lists are sequences, and Python floats are IEEE-754 binary64 values computed with            *)
(* round-to-nearest-even, so that results are the ones the interpreter     *)
(* produces, bit for bit.                                                  *)
(***************************************************************************)
EXTENDS Integers, Sequences, FiniteSets, TLC

(***************************************************************************)
(* Natural numbers of any size: little-endian sequences of limbs below     *)
(* Base, without high zero limbs (zero is the empty sequence).  They carry *)
(* the 53-bit significands, which do not fit TLC's integers.               *)
(***************************************************************************)
LimbBits == 15

Base == 2^LimbBits

RECURSIVE BNorm(_)
BNorm(a) ==
    IF a = <<>> THEN <<>>
    ELSE IF a[Len(a)] = 0 THEN BNorm(SubSeq(a, 1, Len(a) - 1))
    ELSE a

RECURSIVE BFromInt(_)
BFromInt(n) == IF n = 0 THEN <<>> ELSE <<n % Base>> \o BFromInt(n \div Base)

RECURSIVE BAddC(_, _, _)
BAddC(a, b, c) ==
    IF a = <<>> /\ b = <<>> THEN (IF c = 0 THEN <<>> ELSE <<c>>)
    ELSE LET x == IF a = <<>> THEN 0 ELSE Head(a)
             y == IF b = <<>> THEN 0 ELSE Head(b)
             s == x + y + c
         IN  <<s % Base>> \o BAddC(IF a = <<>> THEN <<>> ELSE Tail(a),
                                   IF b = <<>> THEN <<>> ELSE Tail(b),
                                   s \div Base)

BAdd(a, b) == BAddC(a, b, 0)

\* a - b - c for a >= b + c, before normalisation
RECURSIVE BSubC(_, _, _)
BSubC(a, b, c) ==
    IF a = <<>> THEN <<>>
    ELSE LET y == IF b = <<>> THEN 0 ELSE Head(b)
             d == Head(a) - y - c
         IN  <<d % Base>> \o BSubC(Tail(a),
                                   IF b = <<>> THEN <<>> ELSE Tail(b),
                                   IF d < 0 THEN 1 ELSE 0)

BSub(a, b) == BNorm(BSubC(a, b, 0))

\* -1, 0 or 1 as a < b, a = b, a > b
RECURSIVE BCmpFrom(_, _, _)
BCmpFrom(a, b, i) ==
    IF i = 0 THEN 0
    ELSE IF a[i] < b[i] THEN -1
    ELSE IF a[i] > b[i] THEN 1
    ELSE BCmpFrom(a, b, i - 1)

BCmp(a, b) ==
    IF Len(a) < Len(b) THEN -1
    ELSE IF Len(a) > Len(b) THEN 1
    ELSE BCmpFrom(a, b, Len(a))

\* a * k + c for a limb-sized k
RECURSIVE BMulSmallC(_, _, _)
BMulSmallC(a, k, c) ==
    IF a = <<>> THEN (IF c = 0 THEN <<>> ELSE <<c>>)
    ELSE LET s == Head(a) * k + c
         IN  <<s % Base>> \o BMulSmallC(Tail(a), k, s \div Base)

BMulSmall(a, k) == IF k = 0 THEN <<>> ELSE BMulSmallC(a, k, 0)

RECURSIVE BMul(_, _)
BMul(a, b) ==
    IF a = <<>> \/ b = <<>> THEN <<>>
    ELSE BAdd(BMulSmall(a, Head(b)),
              LET rest == BMul(a, Tail(b))
              IN  IF rest = <<>> THEN <<>> ELSE <<0>> \o rest)

BShl(a, n) ==
    IF a = <<>> THEN <<>>
    ELSE [i \in 1..(n \div LimbBits) |-> 0] \o BMulSmall(a, 2^(n % LimbBits))

\* <<a \div d, a % d>> for 0 < d <= 2 * Base, the limbs taken from the top
RECURSIVE BDivSmallFrom(_, _, _, _)
BDivSmallFrom(a, d, i, r) ==
    IF i = 0 THEN <<<<>>, r>>
    ELSE LET cur == r * Base + a[i]
             low == BDivSmallFrom(a, d, i - 1, cur % d)
         IN  <<Append(low[1], cur \div d), low[2]>>

BDivSmall(a, d) ==
    LET qr == BDivSmallFrom(a, d, Len(a), 0)
    IN  <<BNorm(qr[1]), qr[2]>>

BShr(a, n) ==
    LET limbs == n \div LimbBits
    IN  IF limbs >= Len(a) THEN <<>>
        ELSE BDivSmall(SubSeq(a, limbs + 1, Len(a)), 2^(n % LimbBits))[1]

\* a % 2^n
BLow(a, n) ==
    LET limbs == n \div LimbBits
    IN  IF limbs >= Len(a) THEN a
        ELSE BNorm(SubSeq(a, 1, limbs) \o <<a[limbs + 1] % 2^(n % LimbBits)>>)

RECURSIVE IntBitLen(_)
IntBitLen(n) == IF n = 0 THEN 0 ELSE 1 + IntBitLen(n \div 2)

BBitLen(a) ==
    IF a = <<>> THEN 0 ELSE LimbBits * (Len(a) - 1) + IntBitLen(a[Len(a)])

BOdd(a) == a # <<>> /\ a[1] % 2 = 1

\* the number of low zero bits of a # 0
RECURSIVE IntLowZeros(_)
IntLowZeros(n) == IF n % 2 = 1 THEN 0 ELSE 1 + IntLowZeros(n \div 2)

RECURSIVE BLowZeros(_)
BLowZeros(a) ==
    IF Head(a) = 0 THEN LimbBits + BLowZeros(Tail(a)) ELSE IntLowZeros(Head(a))

(***************************************************************************)
(* Python floats.  Every float of the program is finite and >= 0: a float  *)
(* is [m, e] with value m * 2^e and m of exactly Precision bits, or        *)
(* FZero.  Each operation returns the float nearest the exact result,      *)
(* ties to the even significand.                                           *)
(***************************************************************************)
Precision == 53

FZero == [m |-> <<>>, e |-> 0]

IsFZero(x) == x.m = <<>>

\* the float nearest (q + s) * 2^e, with 0 < s < 1 when sticky and s = 0
\* otherwise; q has at least Precision + 2 bits when sticky
RoundQ(q, sticky, e) ==
    LET len0 == BBitLen(q)
        pad  == IF len0 < Precision + 2 THEN Precision + 2 - len0 ELSE 0
        qq   == BShl(q, pad)
        k    == len0 + pad - Precision
        mant == BShr(qq, k)
        c    == BCmp(BLow(qq, k), BShl(<<1>>, k - 1))
        up   == c = 1 \/ (c = 0 /\ (sticky \/ BOdd(mant)))
        m2   == IF up THEN BAdd(mant, <<1>>) ELSE mant
    IN  IF BBitLen(m2) > Precision
        THEN [m |-> BShr(m2, 1), e |-> e - pad + k + 1]
        ELSE [m |-> m2, e |-> e - pad + k]

FromInt(n) == IF n = 0 THEN FZero ELSE RoundQ(BFromInt(n), FALSE, 0)

FAdd(x, y) ==
    IF IsFZero(x) THEN y
    ELSE IF IsFZero(y) THEN x
    ELSE LET e == IF x.e < y.e THEN x.e ELSE y.e
         IN  RoundQ(BAdd(BShl(x.m, x.e - e), BShl(y.m, y.e - e)), FALSE, e)

FMul(x, y) ==
    IF IsFZero(x) \/ IsFZero(y) THEN FZero
    ELSE RoundQ(BMul(x.m, y.m), FALSE, x.e + y.e)

\* Binary long division, for r < 2 * d: the next `steps` quotient bits as an
\* integer, and the remainder they leave (doubled at each step)
RECURSIVE DivBits(_, _, _)
DivBits(r, d, steps) ==
    IF steps = 0 THEN <<0, r>>
    ELSE LET ge   == BCmp(r, d) >= 0
             rest == DivBits(BMulSmall(IF ge THEN BSub(r, d) ELSE r, 2), d, steps - 1)
         IN  <<(IF ge THEN 2^(steps - 1) ELSE 0) + rest[1], rest[2]>>

\* <<floor(r * 2^(limbs * LimbBits - 1) / d), whether a remainder is left>>,
\* the quotient computed one limb at a time from the top
RECURSIVE LongDiv(_, _, _)
LongDiv(r, d, limbs) ==
    IF limbs = 0 THEN <<<<>>, r # <<>>>>
    ELSE LET top  == DivBits(r, d, LimbBits)
             rest == LongDiv(top[2], d, limbs - 1)
         IN  <<Append(rest[1], top[1]), rest[2]>>

QuotLimbs == 4

\* x / y for y # 0
FQuot(x, y) ==
    IF IsFZero(x) THEN FZero
    ELSE LET t == BLowZeros(y.m)
             d == BShr(y.m, t)
         IN  IF Len(d) = 1
             THEN \* a divisor with a one-limb odd part: short division
                  LET qr == BDivSmall(BShl(x.m, 2 * LimbBits), d[1])
                  IN  RoundQ(qr[1], qr[2] # 0, x.e - y.e - t - 2 * LimbBits)
             ELSE LET qs == LongDiv(x.m, y.m, QuotLimbs)
                  IN  RoundQ(BNorm(qs[1]), qs[2],
                             x.e - y.e - (QuotLimbs * LimbBits - 1))

FLe(x, y) ==
    IF IsFZero(x) THEN TRUE
    ELSE IF IsFZero(y) THEN FALSE
    ELSE IF x.e # y.e THEN x.e < y.e
    ELSE BCmp(x.m, y.m) <= 0

FOne == FromInt(1)

(***************************************************************************)
(* Python values.  A str is the sequence of the code points of its         *)
(* characters, so that every character has a value, whatever the encoding  *)
(* of this file; a list or a tuple is a sequence.  A call either returns a *)
(* value or raises.                                                        *)
(***************************************************************************)

\* the ASCII characters U+0020 to U+005F, in the order of their code points
Printable ==
    <<" ", "!", "\"", "#", "$", "%", "&", "'", "(", ")", "*", "+",
      ",", "-", ".", "/", "0", "1", "2", "3", "4", "5", "6", "7",
      "8", "9", ":", ";", "<", "=", ">", "?", "@", "A", "B", "C",
      "D", "E", "F", "G", "H", "I", "J", "K", "L", "M", "N", "O",
      "P", "Q", "R", "S", "T", "U", "V", "W", "X", "Y", "Z", "[",
      "\\", "]", "^", "_">>

\* the ASCII characters U+0061 to U+007E, in the order of their code points
PrintableLower ==
    <<"a", "b", "c", "d", "e", "f", "g", "h", "i", "j", "k", "l",
      "m", "n", "o", "p", "q", "r", "s", "t", "u", "v", "w", "x",
      "y", "z", "{", "|", "}", "~">>

\* ord(c) of a printable ASCII character other than the grave accent
ord(c) ==
    IF \E n \in 1..Len(Printable) : Printable[n] = c
    THEN 31 + (CHOOSE n \in 1..Len(Printable) : Printable[n] = c)
    ELSE 96 + (CHOOSE n \in 1..Len(PrintableLower) : PrintableLower[n] = c)

\* the str made of the given printable ASCII characters
Str(chars) == [n \in 1..Len(chars) |-> ord(chars[n])]

Return(v) == [exc |-> "none", v |-> v]

Raise(e, f) == [exc |-> e, at |-> f]

Raised(r) == r.exc # "none"

\* sub in s, for strings
Contains(s, sub) ==
    \E i \in 1..(Len(s) - Len(sub) + 1) : SubSeq(s, i, i + Len(sub) - 1) = sub

\* Mutant of Member: a phrase counts when it is inside an element of the list
MemberRelaxed(l, each) == \E i \in 1..Len(l) : Contains(l[i], each)

\* each in l, for a list
Member(l, each) == \E i \in 1..Len(l) : l[i] = each

\* the code points str.split() and str.strip() take as whitespace: \t, \n,
\* \v, \f, \r, U+001C to U+001F, space, U+0085, U+00A0, U+1680, U+2000 to
\* U+200A, U+2028, U+2029, U+202F, U+205F and U+3000
Whitespace ==
    (9..13) \cup (28..32) \cup {133, 160, 5760} \cup (8192..8202)
        \cup {8232, 8233, 8239, 8287, 12288}

\* s.split(): the maximal runs of non-whitespace characters
RECURSIVE SplitWs(_, _)
SplitWs(s, cur) ==
    IF s = <<>> THEN (IF cur = <<>> THEN <<>> ELSE <<cur>>)
    ELSE IF Head(s) \in Whitespace
         THEN (IF cur = <<>> THEN <<>> ELSE <<cur>>) \o SplitWs(Tail(s), <<>>)
         ELSE SplitWs(Tail(s), Append(cur, Head(s)))

split(s) == SplitWs(s, <<>>)

StartsWith(s, sep) == Len(s) >= Len(sep) /\ SubSeq(s, 1, Len(sep)) = sep

\* s.split(sep) for a non-empty sep: s cut at each occurrence of sep, found
\* from the left; cur is the piece being read
RECURSIVE SplitOn(_, _, _)
SplitOn(s, sep, cur) ==
    IF s = <<>> THEN <<cur>>
    ELSE IF StartsWith(s, sep)
         THEN <<cur>> \o SplitOn(SubSeq(s, Len(sep) + 1, Len(s)), sep, <<>>)
         ELSE SplitOn(Tail(s), sep, Append(cur, Head(s)))

str_split(s, sep) == SplitOn(s, sep, <<>>)

IntMax(a, b) == IF a >= b THEN a ELSE b

\* Mutant of max: the first score instead of the largest
first_of(l) == Head(l)

\* max(l) of a non-empty list of floats: the first of the largest
RECURSIVE FMaxFrom(_, _)
FMaxFrom(l, best) ==
    IF l = <<>> THEN best
    ELSE FMaxFrom(Tail(l), IF FLe(Head(l), best) THEN best ELSE Head(l))

max(l) == FMaxFrom(Tail(l), Head(l))

\* sum(l): the additions from the left, starting at the integer 0, each one
\* rounded (the sum() of CPython up to 3.11; from 3.12 on sum() of floats
\* carries a compensation term and rounds less)
RECURSIVE FSumFrom(_, _)
FSumFrom(l, acc) == IF l = <<>> THEN acc ELSE FSumFrom(Tail(l), FAdd(acc, Head(l)))

sum(l) == FSumFrom(l, FZero)

(***************************************************************************)
(* The scoring functions of key_eval.py (KeyEval.py holds the same ones).  *)
(***************************************************************************)

\* Mutant of OccurCount: a phrase repeated in l2 is counted once
OccurCountDistinct(l1, l2) ==
    FromInt(Cardinality({l2[i] : i \in {j \in 1..Len(l2) : Member(l1, l2[j])}}))

\* the loop of get_recall and get_precision: occur_count goes up by 1.0 for
\* each element of l2 that is in l1 (sums of 1.0 are exact)
OccurCount(l1, l2) == FromInt(Cardinality({i \in 1..Len(l2) : Member(l1, l2[i])}))

\* Mutant of get_recall: 0.0 by convention for an empty gold list
get_recall_conventional(l1, l2) ==
    IF Len(l1) = 0 THEN Return(FZero)
    ELSE Return(FQuot(OccurCount(l1, l2), FromInt(Len(l1))))

get_recall(l1, l2) ==
    IF Len(l1) = 0 THEN Raise("ZeroDivisionError", "get_recall")
    ELSE Return(FQuot(OccurCount(l1, l2), FromInt(Len(l1))))

get_precision(l1, l2) ==
    IF Len(l2) = 0 THEN Raise("ZeroDivisionError", "get_precision")
    ELSE Return(FQuot(OccurCount(l1, l2), FromInt(Len(l2))))

get_f1(r, p) ==
    IF IsFZero(FAdd(r, p)) THEN FZero
    ELSE FQuot(FMul(FMul(FromInt(2), p), r), FAdd(p, r))

get_Rprecision(phrase1, phrase2) ==
    LET words == split(phrase2)
        occur_count ==
            FromInt(Cardinality({i \in 1..Len(words) : Contains(phrase1, words[i])}))
        longest == IntMax(Len(words), Len(split(phrase1)))
    IN  IF longest = 0 THEN Raise("ZeroDivisionError", "get_Rprecision")
        ELSE Return(FQuot(occur_count, FromInt(longest)))

\* rscores of one gold phrase: its score against every predicted phrase
Rscores(gphrase, predicted_keywords) ==
    [j \in 1..Len(predicted_keywords) |->
        get_Rprecision(gphrase, predicted_keywords[j])]

\* the list scores of get_all_Rprecision: per gold phrase, the largest of rscores
Scores(gold_kw, predicted_kw) ==
    [i \in 1..Len(gold_kw) |-> max([j \in 1..Len(predicted_kw) |->
                                       Rscores(gold_kw[i], predicted_kw)[j].v])]

\* No gold phrase: sum([]) / len([]) is 0 / 0.  No predicted phrase: the first
\* max(rscores) is a max of nothing.  Otherwise the first get_Rprecision that
\* raises ends the call.
get_all_Rprecision(gold_kw, predicted_kw) ==
    IF Len(gold_kw) = 0 THEN Raise("ZeroDivisionError", "get_all_Rprecision")
    ELSE IF Len(predicted_kw) = 0 THEN Raise("ValueError", "get_all_Rprecision")
    ELSE IF \E i \in 1..Len(gold_kw), j \in 1..Len(predicted_kw) :
                Raised(Rscores(gold_kw[i], predicted_kw)[j])
         THEN Raise("ZeroDivisionError", "get_Rprecision")
    ELSE Return(FQuot(sum(Scores(gold_kw, predicted_kw)), FromInt(Len(gold_kw))))

\* the end of get_scores, from what its three calls gave: the first exception,
\* or else the tuple (f1, recall, precision, Rprecision)
ScoreTuple(recall, precision, Rprecision) ==
    IF Raised(recall) THEN recall
    ELSE IF Raised(precision) THEN precision
    ELSE IF Raised(Rprecision) THEN Rprecision
    ELSE Return(<<get_f1(recall.v, precision.v), recall.v, precision.v,
                  Rprecision.v>>)

\* recall, precision and Rprecision are the locals of get_scores, each
\* computed once
get_scores(gold_kw, predicted_kw) ==
    CHOOSE result \in
        {ScoreTuple(recall, precision, Rprecision) :
            recall \in {get_recall(gold_kw, predicted_kw)},
            precision \in {get_precision(gold_kw, predicted_kw)},
            Rprecision \in {get_all_Rprecision(gold_kw, predicted_kw)}} : TRUE

\* the list adjusted_gold of get_all_scores: the loop appends each gold phrase
\* that is in text
RECURSIVE AdjustedGold(_, _)
AdjustedGold(gold_kw, txt) ==
    IF gold_kw = <<>> THEN <<>>
    ELSE (IF Contains(txt, Head(gold_kw)) THEN <<Head(gold_kw)>> ELSE <<>>)
         \o AdjustedGold(Tail(gold_kw), txt)

\* Mutant of ScorePair: four zeros instead of the empty list when there is no
\* adjusted gold phrase, as KeyEval.get_all_scores does under adjust and text
ForcedZeroPair(metrics, adjusted_gold, predicted_kw) ==
    IF Raised(metrics) THEN metrics
    ELSE IF Len(adjusted_gold) < 1
         THEN Return(<<metrics.v, <<FZero, FZero, FZero, FZero>>>>)
    ELSE CHOOSE result \in
            {IF Raised(adjusted_metrics) THEN adjusted_metrics
             ELSE Return(<<metrics.v, adjusted_metrics.v>>) :
                adjusted_metrics \in {get_scores(adjusted_gold, predicted_kw)}} : TRUE

\* the end of get_all_scores: (metrics, adjusted_metrics), the second one the
\* empty list when there is no adjusted gold phrase; adjusted_metrics is what
\* get_scores gives on the adjusted gold list, computed only when it is not empty
ScorePair(metrics, adjusted_gold, predicted_kw) ==
    IF Raised(metrics) THEN metrics
    ELSE IF Len(adjusted_gold) < 1 THEN Return(<<metrics.v, <<>>>>)
    ELSE CHOOSE result \in
            {IF Raised(adjusted_metrics) THEN adjusted_metrics
             ELSE Return(<<metrics.v, adjusted_metrics.v>>) :
                adjusted_metrics \in {get_scores(adjusted_gold, predicted_kw)}} : TRUE

\* key_eval.get_all_scores; adjusted_gold stays empty unless adjust is set and
\* text is not empty
get_all_scores(gold_kw, predicted_kw, txt, adj) ==
    CHOOSE result \in
        {ScorePair(metrics, adjusted_gold, predicted_kw) :
            metrics \in {get_scores(gold_kw, predicted_kw)},
            adjusted_gold \in {IF adj /\ txt # <<>>
                               THEN AdjustedGold(gold_kw, txt) ELSE <<>>}} : TRUE

(***************************************************************************)
(* State.  The scoring functions are pure: a call is a step from the       *)
(* inputs to a state that holds the call, its arguments and its outcome.   *)
(***************************************************************************)
VARIABLES
    pc,                  \* where the run is
    gold_keywords,       \* scoring: the gold list
    predicted_keywords,  \* scoring: the predicted list
    call,                \* scoring: the function called
    args,                \* scoring: its arguments
    ret,                 \* scoring: what it returned or raised
    first,               \* scoring: what the first call of a series returned
    keywords,            \* get_key_abs: the keywords column of the filtered rows
    index,               \* get_key_abs and eval_file: the loop variable i (from 1)
    keyword,             \* get_key_abs: the fragments of the row just split
    new,                 \* get_key_abs: the phrases of the row just split
    processed_keywords,  \* get_key_abs: the phrases of the rows done
    keywords_gold,       \* eval_file: the gold lists get_key_abs returned
    abstracts,           \* eval_file: the abstracts get_key_abs returned
    log,                 \* eval_file: its parameter log
    predicted,           \* eval_file: what model.get_keywords gave, its [0]
    scores,              \* eval_file: the score pair of the document
    all_scores,          \* eval_file: the base accumulator
    all_scores_adjust,   \* eval_file: the adjusted accumulator
    data_file,           \* eval_file: the rows written to <model name>.tsv
    counts,              \* eval_file: the lengths of the two accumulators
    output_json,         \* eval_file: the records appended to outputpaths[0]
    output_tsv           \* eval_file: the rows appended to outputpaths[1]

scoreVars == <<gold_keywords, predicted_keywords, call, args, ret, first>>

parseVars == <<keywords, keyword, new, processed_keywords>>

evalVars ==
    <<keywords_gold, abstracts, log, predicted, scores, all_scores,
      all_scores_adjust, data_file, counts, output_json, output_tsv>>

vars == <<pc, index, scoreVars, parseVars, evalVars>>

\* the variables of the other functions, which a run of one function leaves alone
IdleScoring ==
    /\ gold_keywords = <<>>
    /\ predicted_keywords = <<>>
    /\ call = "none"
    /\ args = <<>>
    /\ ret = [exc |-> "none"]
    /\ first = [exc |-> "none"]

IdleParsing ==
    /\ keywords = <<>>
    /\ keyword = <<>>
    /\ new = <<>>
    /\ processed_keywords = <<>>

IdleEvaluation ==
    /\ keywords_gold = <<>>
    /\ abstracts = <<>>
    /\ log = FALSE
    /\ predicted = [exc |-> "none"]
    /\ scores = <<>>
    /\ all_scores = <<>>
    /\ all_scores_adjust = <<>>
    /\ data_file = <<>>
    /\ counts = <<>>
    /\ output_json = <<>>
    /\ output_tsv = <<>>

None == [exc |-> "none"]

\* the lists of at most n elements of S
RECURSIVE ListsUpTo(_, _)
ListsUpTo(S, n) ==
    IF n = 0 THEN {<<>>}
    ELSE LET shorter == ListsUpTo(S, n - 1)
         IN  shorter \cup {Append(l, x) : l \in shorter, x \in S}

(***************************************************************************)
(* The scoring functions on every pair of short keyword lists.  The        *)
(* phrases: one contained in the other as a substring, and one without any *)
(* token (what a keyword field ending in a delimiter leaves).              *)
(***************************************************************************)
MaxKeywords == 2

ScorePhrases == {Str(<<"a">>), Str(<<"a", "b">>), <<>>}

ScoreTexts == {<<>>, Str(<<"a">>), Str(<<"a", "b">>), Str(<<"b">>)}

InitScores ==
    /\ pc = "ready"
    /\ gold_keywords \in ListsUpTo(ScorePhrases, MaxKeywords)
    /\ predicted_keywords \in ListsUpTo(ScorePhrases, MaxKeywords)
    /\ call = "none"
    /\ args = <<>>
    /\ ret = None
    /\ first = None
    /\ index = 0
    /\ IdleParsing
    /\ IdleEvaluation

Returns(name, arguments, outcome) ==
    /\ pc = "ready"
    /\ pc' = "returned"
    /\ call' = name
    /\ args' = arguments
    /\ ret' = outcome
    /\ UNCHANGED <<gold_keywords, predicted_keywords, first, index, parseVars, evalVars>>

Call_get_recall ==
    Returns("get_recall", <<gold_keywords, predicted_keywords>>,
            get_recall(gold_keywords, predicted_keywords))

Call_get_precision ==
    Returns("get_precision", <<gold_keywords, predicted_keywords>>,
            get_precision(gold_keywords, predicted_keywords))

\* get_f1 on the recall and the precision of the two lists, as get_scores calls it
Call_get_f1 ==
    LET recall    == get_recall(gold_keywords, predicted_keywords)
        precision == get_precision(gold_keywords, predicted_keywords)
    IN  /\ ~Raised(recall)
        /\ ~Raised(precision)
        /\ Returns("get_f1", <<recall.v, precision.v>>,
                   Return(get_f1(recall.v, precision.v)))

Call_get_all_Rprecision ==
    Returns("get_all_Rprecision", <<gold_keywords, predicted_keywords>>,
            get_all_Rprecision(gold_keywords, predicted_keywords))

Call_get_scores ==
    Returns("get_scores", <<gold_keywords, predicted_keywords>>,
            get_scores(gold_keywords, predicted_keywords))

Call_get_all_scores ==
    \E txt \in ScoreTexts, adj \in BOOLEAN :
        Returns("get_all_scores", <<gold_keywords, predicted_keywords, txt, adj>>,
                get_all_scores(gold_keywords, predicted_keywords, txt, adj))

NextScores ==
    \/ Call_get_recall
    \/ Call_get_precision
    \/ Call_get_f1
    \/ Call_get_all_Rprecision
    \/ Call_get_scores
    \/ Call_get_all_scores

SpecScores == InitScores /\ [][NextScores]_vars

(***************************************************************************)
(* Claims on the scoring functions, under SpecScores.                      *)
(***************************************************************************)
InUnitInterval(x) == FLe(FZero, x) /\ FLe(x, FOne)

NoSharedPhrase ==
    \A i \in 1..Len(gold_keywords), j \in 1..Len(predicted_keywords) :
        gold_keywords[i] # predicted_keywords[j]

RatioCall == call \in {"get_recall", "get_precision", "get_f1"}

\* C1: whenever get_scores returns a tuple for non-empty gold and predicted
\* lists, its four components f1, recall, precision and r_precision are all
\* in [0.0, 1.0].
C1_ScoresInUnitInterval ==
    (/\ call = "get_scores"
     /\ gold_keywords # <<>>
     /\ predicted_keywords # <<>>
     /\ ~Raised(ret))
        => \A k \in 1..4 : InUnitInterval(ret.v[k])

\* C4: when predicted is the same non-empty sequence as gold, get_recall and
\* get_precision return 1.0, and so does get_f1 on their results.
C4_IdenticalListsScoreOne ==
    (RatioCall /\ gold_keywords # <<>> /\ predicted_keywords = gold_keywords)
        => ret = Return(FOne)

C4_Witness ==
    /\ call = "get_f1"
    /\ predicted_keywords = gold_keywords
    /\ Len(gold_keywords) = 2
    /\ gold_keywords[1] = gold_keywords[2]
    /\ args = <<FOne, FOne>>
    /\ ret = Return(FOne)

\* C5 as stated: for all gold and predicted lists that share no phrase, empty
\* lists included, get_recall, get_precision and get_f1 give 0.0, and
\* get_f1(0.0, 0.0) is 0.0.
C5_DisjointListsScoreZero ==
    /\ (RatioCall /\ NoSharedPhrase) => ret = Return(FZero)
    /\ (call = "get_f1" /\ args = <<FZero, FZero>>) => ret = Return(FZero)

\* C5 amended: for all non-empty gold and predicted lists that share no
\* phrase, get_recall, get_precision and get_f1 give 0.0, and get_f1(0.0, 0.0)
\* is 0.0 rather than a division by zero.
C5_NonEmptyDisjointListsScoreZero ==
    /\ (/\ RatioCall
        /\ NoSharedPhrase
        /\ gold_keywords # <<>>
        /\ predicted_keywords # <<>>) => ret = Return(FZero)
    /\ (call = "get_f1" /\ args = <<FZero, FZero>>) => ret = Return(FZero)

C5_Witness ==
    /\ call = "get_f1"
    /\ NoSharedPhrase
    /\ Len(gold_keywords) = 2
    /\ Len(predicted_keywords) = 2
    /\ args = <<FZero, FZero>>
    /\ ret = Return(FZero)

\* C9: get_scores raises whenever gold or predicted is empty: in get_recall
\* (a division by zero) for an empty gold list, in get_precision or
\* get_all_Rprecision for an empty predicted list with a non-empty gold list;
\* called on such lists, get_precision raises a division by zero and
\* get_all_Rprecision raises on its max of an empty sequence.
C9_EmptyListsRaise ==
    /\ (call = "get_scores" /\ gold_keywords = <<>>)
            => ret = Raise("ZeroDivisionError", "get_recall")
    /\ (call = "get_scores" /\ gold_keywords # <<>> /\ predicted_keywords = <<>>)
            => Raised(ret) /\ ret.at \in {"get_precision", "get_all_Rprecision"}
    /\ (call = "get_precision" /\ predicted_keywords = <<>>)
            => ret = Raise("ZeroDivisionError", "get_precision")
    /\ (call = "get_all_Rprecision" /\ gold_keywords # <<>>
            /\ predicted_keywords = <<>>)
            => ret = Raise("ValueError", "get_all_Rprecision")

C9_Witness ==
    /\ call = "get_scores"
    /\ gold_keywords # <<>>
    /\ predicted_keywords = <<>>
    /\ ret = Raise("ZeroDivisionError", "get_precision")

\* the gold phrases that occur in txt, in their order, each as often as in gold
PhrasesIn(gold_kw, txt) == SelectSeq(gold_kw, LAMBDA phrase : Contains(txt, phrase))

\* C3: for non-empty gold and predicted, get_all_scores raises only when
\* get_scores(gold, predicted) does; when it returns, its adjusted result is
\* get_scores(AdjustedGold, predicted) if adjust is true, text is not empty and
\* AdjustedGold, the sub-sequence of the gold phrases that are substrings of
\* text, is not empty; otherwise the adjusted result is the empty list.
C3_AdjustedScores ==
    (call = "get_all_scores" /\ args[1] # <<>> /\ args[2] # <<>>) =>
        LET expected == PhrasesIn(args[1], args[3])
        IN  /\ Raised(ret) <=> Raised(get_scores(args[1], args[2]))
            /\ (~Raised(ret) /\ args[4] /\ args[3] # <<>> /\ expected # <<>>)
                    => ret.v[2] = get_scores(expected, args[2]).v
            /\ (~Raised(ret) /\ ~(args[4] /\ args[3] # <<>> /\ expected # <<>>))
                    => ret.v[2] = <<>>

\* text holds one of two gold keywords: the adjusted tuple is scored against
\* that one and differs from the base tuple
C3_Witness ==
    /\ call = "get_all_scores"
    /\ Len(args[1]) = 2
    /\ args[4]
    /\ Len(PhrasesIn(args[1], args[3])) = 1
    /\ ~Raised(ret)
    /\ ret.v[2] = get_scores(PhrasesIn(args[1], args[3]), args[2]).v
    /\ ret.v[2] # ret.v[1]

(***************************************************************************)
(* get_all_Rprecision on one pair of lists and then on reorderings of it:  *)
(* after the first call, each step exchanges two neighbours of the gold or *)
(* of the predicted list and calls again.  Every phrase has a token.       *)
(***************************************************************************)
MaxPermGold == 4

MaxPermPredicted == 2

PermPhrases == {Str(<<"a">>), Str(<<"a", " ", "b", " ", "c">>)}

InitPerm ==
    /\ pc = "ready"
    /\ gold_keywords \in ListsUpTo(PermPhrases, MaxPermGold) \ {<<>>}
    /\ predicted_keywords \in ListsUpTo(PermPhrases, MaxPermPredicted) \ {<<>>}
    /\ call = "none"
    /\ args = <<>>
    /\ ret = None
    /\ first = None
    /\ index = 0
    /\ IdleParsing
    /\ IdleEvaluation

\* l with its elements k and k + 1 exchanged
Exchange(l, k) ==
    [n \in 1..Len(l) |-> IF n = k THEN l[k + 1] ELSE IF n = k + 1 THEN l[k] ELSE l[n]]

FirstCall ==
    /\ pc = "ready"
    /\ pc' = "returned"
    /\ call' = "get_all_Rprecision"
    /\ args' = <<gold_keywords, predicted_keywords>>
    /\ ret' = get_all_Rprecision(gold_keywords, predicted_keywords)
    /\ first' = ret'
    /\ UNCHANGED <<gold_keywords, predicted_keywords, index, parseVars,
                   evalVars>>

CallReordered(gold_kw, predicted_kw) ==
    /\ <<gold_kw, predicted_kw>> # args
    /\ args' = <<gold_kw, predicted_kw>>
    /\ ret' = get_all_Rprecision(gold_kw, predicted_kw)
    /\ UNCHANGED <<pc, gold_keywords, predicted_keywords, call, first, index,
                   parseVars, evalVars>>

ReorderGold ==
    /\ pc = "returned"
    /\ \E k \in 1..(Len(args[1]) - 1) :
            CallReordered(Exchange(args[1], k), args[2])

ReorderPredicted ==
    /\ pc = "returned"
    /\ \E k \in 1..(Len(args[2]) - 1) :
            CallReordered(args[1], Exchange(args[2], k))

NextPerm == FirstCall \/ ReorderGold \/ ReorderPredicted

SpecPerm == InitPerm /\ [][NextPerm]_vars

(***************************************************************************)
(* Claims on reordering, under SpecPerm.                                   *)
(***************************************************************************)
\* how often x is in the list l
CountIn(l, x) == Cardinality({n \in 1..Len(l) : l[n] = x})

SameElements(l1, l2) ==
    /\ Len(l1) = Len(l2)
    /\ \A n \in 1..Len(l1) : CountIn(l1, l1[n]) = CountIn(l2, l1[n])

\* n * 2^-52.  The mean of n scores, each in [0, 1], added from the left: the
\* partial sum of k scores is at most k and its addition is off by at most
\* k * 2^-53, the sum by less than n * (n + 1) * 2^-54, the quotient by at most
\* 2^-53 more; so the result is within (n + 3) * 2^-54 of the exact mean, and
\* two orders of the same scores are within (n + 3) * 2^-53 <= n * 2^-52 of
\* each other for n >= 3.
Tolerance(n) == FMul(FromInt(n), [m |-> FOne.m, e |-> FOne.e - 52])

FClose(x, y, tolerance) == FLe(x, FAdd(y, tolerance)) /\ FLe(y, FAdd(x, tolerance))

\* C8 as stated: get_all_Rprecision returns the same value for every
\* permutation of the gold list and every permutation of the predicted list.
C8_SameForEveryReordering == pc = "returned" => ret = first

\* C8 amended: get_all_Rprecision returns the same value for every permutation
\* of the predicted list, and for every permutation of a gold list of one or
\* two phrases; for a permutation of a longer gold list the per-phrase maxima
\* are the same values in the permuted order, and the results, means of these
\* n values added in two orders, differ by at most n * 2^-52.
C8_SameUpToRounding ==
    pc = "returned" =>
        /\ ~Raised(ret)
        /\ (args[1] = gold_keywords => ret = first)
        /\ (Len(gold_keywords) <= 2 => ret = first)
        /\ SameElements(args[1], gold_keywords)
        /\ SameElements(args[2], predicted_keywords)
        /\ SameElements(Scores(args[1], args[2]),
                        Scores(gold_keywords, predicted_keywords))
        /\ FClose(ret.v, first.v, Tolerance(Len(gold_keywords)))

\* the gold list reordered, and the result is close to the first one but not
\* equal to it
C8_Witness ==
    /\ pc = "returned"
    /\ args[1] # gold_keywords
    /\ SameElements(args[1], gold_keywords)
    /\ ret # first
    /\ FClose(ret.v, first.v, Tolerance(Len(gold_keywords)))

(***************************************************************************)
(* The keyword parser: the loop of get_key_abs over the keywords column,   *)
(* one row a step.  clean is Datasets.utils.clean, which is not among the  *)
(* sources: it trims a phrase and puts it in lower case.                   *)
(***************************************************************************)
\* the lower case of an ASCII letter; another character is left as it is
Lower(c) == IF c \in 65..90 THEN c + 32 ELSE c

RECURSIVE LStrip(_)
LStrip(s) == IF s # <<>> /\ Head(s) \in Whitespace THEN LStrip(Tail(s)) ELSE s

RECURSIVE RStrip(_)
RStrip(s) ==
    IF s # <<>> /\ s[Len(s)] \in Whitespace THEN RStrip(SubSeq(s, 1, Len(s) - 1))
    ELSE s

clean(k) == LET t == RStrip(LStrip(k)) IN [n \in 1..Len(t) |-> Lower(t[n])]

Semicolon == Str(<<";">>)

Comma == Str(<<",">>)

\* "\t"
Tab == <<9>>

SpaceTo == Str(<<" ", "t", "o">>)

Dashes == Str(<<"-", "-", "-">>)

\* Mutant of Delimiter: the comma before the semicolon
DelimiterCommaFirst(s) ==
    IF Contains(s, Comma) THEN Comma
    ELSE IF Contains(s, Semicolon) THEN Semicolon
    ELSE IF Contains(s, Tab) THEN Tab
    ELSE SpaceTo

\* the delimiter the if/elif chain of get_key_abs splits a row on
Delimiter(s) ==
    IF Contains(s, Semicolon) THEN Semicolon
    ELSE IF Contains(s, Comma) THEN Comma
    ELSE IF Contains(s, Tab) THEN Tab
    ELSE SpaceTo

\* what one fragment adds to new
CleanKey(key) ==
    IF Contains(key, Dashes)
    THEN LET parts == str_split(key, Dashes)
         IN  [n \in 1..Len(parts) |-> clean(parts[n])]
    ELSE <<clean(key)>>

\* the loop over the fragments of a row
RECURSIVE CleanKeys(_)
CleanKeys(fragments) ==
    IF fragments = <<>> THEN <<>>
    ELSE CleanKey(Head(fragments)) \o CleanKeys(Tail(fragments))

RECURSIVE Concat(_)
Concat(pieces) == IF pieces = <<>> THEN <<>> ELSE Head(pieces) \o Concat(Tail(pieces))

MaxPieces == 5

Pieces == {Str(<<"a">>), Str(<<"B">>), Semicolon, Comma, Tab, SpaceTo, Dashes}

RawKeywords == {Concat(l) : l \in ListsUpTo(Pieces, MaxPieces)}

InitParse ==
    /\ pc = "rows"
    /\ keywords \in {<<raw>> : raw \in RawKeywords}
    /\ index = 1
    /\ keyword = <<>>
    /\ new = <<>>
    /\ processed_keywords = <<>>
    /\ IdleScoring
    /\ IdleEvaluation

\* one turn of the loop of get_key_abs: keywords[index] is split on its delimiter,
\* its fragments are split on "---" and cleaned, and the row is appended
ParseRow ==
    /\ pc = "rows"
    /\ index <= Len(keywords)
    /\ keyword' = str_split(keywords[index], Delimiter(keywords[index]))
    /\ new' = CleanKeys(keyword')
    /\ processed_keywords' = Append(processed_keywords, new')
    /\ index' = index + 1
    /\ UNCHANGED <<pc, keywords, scoreVars, evalVars>>

\* the loop is over: get_key_abs returns processed_keywords
ReturnKeywords ==
    /\ pc = "rows"
    /\ index > Len(keywords)
    /\ pc' = "parsed"
    /\ UNCHANGED <<index, parseVars, scoreVars, evalVars>>

NextParse == ParseRow \/ ReturnKeywords

SpecParse == InitParse /\ [][NextParse]_vars

(***************************************************************************)
(* Claims on the keyword parser, under SpecParse.                          *)
(***************************************************************************)
\* the pieces with sep put back between them
RECURSIVE Join(_, _)
Join(pieces, sep) ==
    IF Len(pieces) = 1 THEN pieces[1]
    ELSE pieces[1] \o sep \o Join(Tail(pieces), sep)

\* pieces is s cut at every sep
IsCutOn(pieces, s, sep) ==
    /\ Len(pieces) >= 1
    /\ Join(pieces, sep) = s
    /\ \A n \in 1..Len(pieces) : ~Contains(pieces[n], sep)

Priority == <<Semicolon, Comma, Tab>>

\* the first delimiter of Priority that is in s, " to" when none is
FirstPresent(s) ==
    LET present == {n \in 1..Len(Priority) : Contains(s, Priority[n])}
    IN  IF present = {} THEN SpaceTo
        ELSE Priority[CHOOSE n \in present : \A m \in present : n <= m]

\* the cleaned "---" parts of every fragment, fragment after fragment
RECURSIVE CleanedParts(_)
CleanedParts(fragments) ==
    IF fragments = <<>> THEN <<>>
    ELSE LET parts == str_split(Head(fragments), Dashes)
         IN  [n \in 1..Len(parts) |-> clean(parts[n])]
             \o CleanedParts(Tail(fragments))

\* C6: a raw keyword string is cut on exactly one delimiter, the first present
\* of semicolon, comma, tab, else " to", so that the other delimiters stay
\* inside the fragments; every fragment is cut on "---", and the cleaned parts
\* are the row's phrases, in their order from left to right and with repeats.
C6_ParserSplits ==
    index = 2 =>
        /\ IsCutOn(keyword, keywords[1], FirstPresent(keywords[1]))
        /\ \A n \in 1..Len(keyword) :
                IsCutOn(str_split(keyword[n], Dashes), keyword[n], Dashes)
        /\ new = CleanedParts(keyword)
        /\ processed_keywords = <<new>>

\* "a---B,a": the phrases a, b, a in that order, the repeat kept
C6_Witness ==
    /\ pc = "parsed"
    /\ keywords = <<Str(<<"a", "-", "-", "-", "B", ",", "a">>)>>
    /\ keyword = <<Str(<<"a", "-", "-", "-", "B">>), Str(<<"a">>)>>
    /\ processed_keywords = <<<<Str(<<"a">>), Str(<<"b">>), Str(<<"a">>)>>>>

(***************************************************************************)
(* eval_file, from the return of get_key_abs on: the loop over the         *)
(* documents (the model call, the scoring under try, the row written, the  *)
(* accumulators), then the means and the log.  The model is any object     *)
(* with get_keywords: its call returns some keyword list or raises.  The   *)
(* gold lists are what get_key_abs makes of a keywords column, so none of  *)
(* them is empty.  The means are pandas' DataFrame.mean(axis=0): for each  *)
(* column its sum divided by the number of rows, and no column at all for  *)
(* a frame without rows.                                                   *)
(***************************************************************************)
MaxDocuments == 2

EvalRawKeywords == {Str(<<"a">>), Str(<<"a", ";", "b">>)}

EvalGold == {CleanKeys(str_split(raw, Delimiter(raw))) : raw \in EvalRawKeywords}

EvalAbstracts == {Str(<<"a">>), Str(<<"b">>)}

EvalPredicted == {<<>>, <<Str(<<"a">>)>>}

\* the lists of gold lists and of abstracts, of the same length
Datasets ==
    {d \in ListsUpTo(EvalGold \X EvalAbstracts, MaxDocuments) : TRUE}

InitEval ==
    /\ pc = "loop"
    /\ \E d \in Datasets :
            /\ keywords_gold = [n \in 1..Len(d) |-> d[n][1]]
            /\ abstracts = [n \in 1..Len(d) |-> d[n][2]]
    /\ log \in BOOLEAN
    /\ index = 1
    /\ predicted = None
    /\ scores = <<>>
    /\ all_scores = <<>>
    /\ all_scores_adjust = <<>>
    /\ data_file = <<>>
    /\ counts = <<>>
    /\ output_json = <<>>
    /\ output_tsv = <<>>
    /\ IdleScoring
    /\ IdleParsing

Zeros == <<FZero, FZero, FZero, FZero>>

\* Mutant of TryScores: a failed scoring leaves no adjusted tuple
TryScoresBaseOnly(gold_kw, predicted_kw, txt) ==
    CHOOSE pair \in
        {IF Raised(result) THEN <<Zeros, <<>>>> ELSE result.v :
            result \in {get_all_scores(gold_kw, predicted_kw, txt, TRUE)}} : TRUE

\* the try statement of the loop: the pair of get_all_scores, or two tuples of
\* zeros when it raises
TryScores(gold_kw, predicted_kw, txt) ==
    CHOOSE pair \in
        {IF Raised(result) THEN <<Zeros, Zeros>> ELSE result.v :
            result \in {get_all_scores(gold_kw, predicted_kw, txt, TRUE)}} : TRUE

\* Mutant of AppendIfAny: the tuple is appended even when it is empty
AppendAlways(accumulator, tuple) == Append(accumulator, tuple)

\* if scores[1]: all_scores_adjust.append(scores[1])
AppendIfAny(accumulator, tuple) ==
    IF tuple # <<>> THEN Append(accumulator, tuple) ELSE accumulator

\* predicted_keywords = model.get_keywords(abstracts[i], n=top_n), outside the
\* try statement: an exception here ends eval_file
GetKeywords ==
    /\ pc = "loop"
    /\ index <= Len(keywords_gold)
    /\ \/ /\ predicted' = Raise("Exception", "get_keywords")
          /\ pc' = "raised"
       \/ /\ \E predicted_kw \in EvalPredicted : predicted' = Return(predicted_kw)
          /\ pc' = "score"
    /\ UNCHANGED <<index, keywords_gold, abstracts, log, scores, all_scores,
                   all_scores_adjust, data_file, counts, output_json, output_tsv,
                   scoreVars, parseVars>>

Score ==
    /\ pc = "score"
    /\ scores' = TryScores(keywords_gold[index], predicted.v, abstracts[index])
    /\ pc' = "write"
    /\ UNCHANGED <<index, keywords_gold, abstracts, log, predicted, all_scores,
                   all_scores_adjust, data_file, counts, output_json, output_tsv,
                   scoreVars, parseVars>>

DocumentRow ==
    [kind |-> "document",
     fields |-> <<abstracts[index], keywords_gold[index], predicted.v,
                  scores[1], scores[2]>>]

\* Mutant of WriteRow: no row for a document whose scoring failed
WriteRowUnlessFailed ==
    /\ pc = "write"
    /\ data_file' = IF scores = <<Zeros, Zeros>> THEN data_file
                    ELSE Append(data_file, DocumentRow)
    /\ pc' = "accumulate"
    /\ UNCHANGED <<index, keywords_gold, abstracts, log, predicted, scores,
                   all_scores, all_scores_adjust, counts, output_json, output_tsv,
                   scoreVars, parseVars>>

\* data_file_.write(data_line): the abstract, the gold list, the predicted
\* list and the two score tuples of the document
WriteRow ==
    /\ pc = "write"
    /\ data_file' = Append(data_file, DocumentRow)
    /\ pc' = "accumulate"
    /\ UNCHANGED <<index, keywords_gold, abstracts, log, predicted, scores,
                   all_scores, all_scores_adjust, counts, output_json, output_tsv,
                   scoreVars, parseVars>>

Accumulate ==
    /\ pc = "accumulate"
    /\ all_scores' = Append(all_scores, scores[1])
    /\ all_scores_adjust' = AppendIfAny(all_scores_adjust, scores[2])
    /\ index' = index + 1
    /\ pc' = "loop"
    /\ UNCHANGED <<keywords_gold, abstracts, log, predicted, scores, data_file,
                   counts, output_json, output_tsv, scoreVars, parseVars>>

\* list(pd.DataFrame(tuples).mean(axis=0))
ColumnMeans(tuples) ==
    IF tuples = <<>> THEN <<>>
    ELSE [c \in 1..4 |->
            FQuot(sum([n \in 1..Len(tuples) |-> tuples[n][c]]), FromInt(Len(tuples)))]

\* after the loop: counts, the two accumulators rebound to their means, and
\* the row of the means
Summary ==
    /\ pc = "loop"
    /\ index > Len(keywords_gold)
    /\ counts' = <<Len(all_scores), Len(all_scores_adjust)>>
    /\ all_scores' = ColumnMeans(all_scores)
    /\ all_scores_adjust' = ColumnMeans(all_scores_adjust)
    /\ data_file' = Append(data_file, [kind |-> "mean",
                                       fields |-> all_scores' \o all_scores_adjust'])
    /\ pc' = "log"
    /\ UNCHANGED <<index, keywords_gold, abstracts, log, predicted, scores,
                   output_json, output_tsv, scoreVars, parseVars>>

\* the record of the run, as far as the scores go
Output == [counts |-> counts, scores |-> all_scores, scores_adjusted |-> all_scores_adjust]

\* if log: the JSON record, then the TSV row, which reads the four means of
\* each accumulator: an IndexError when one of them has none
Log ==
    /\ pc = "log"
    /\ output_json' = IF log THEN Append(output_json, Output) ELSE output_json
    /\ IF log /\ (all_scores = <<>> \/ all_scores_adjust = <<>>)
       THEN /\ pc' = "raised"
            /\ UNCHANGED output_tsv
       ELSE /\ pc' = "done"
            /\ output_tsv' = IF log THEN Append(output_tsv, Output) ELSE output_tsv
    /\ UNCHANGED <<index, keywords_gold, abstracts, log, predicted, scores,
                   all_scores, all_scores_adjust, data_file, counts, scoreVars,
                   parseVars>>

NextEval == GetKeywords \/ Score \/ WriteRow \/ Accumulate \/ Summary \/ Log

SpecEval == InitEval /\ [][NextEval]_vars

\* what is known of the documents from the rows of the file
Documents == Len(keywords_gold)

RowFields(j) == data_file[j].fields

ScoringRaised(j) ==
    Raised(get_all_scores(RowFields(j)[2], RowFields(j)[3], RowFields(j)[1], TRUE))

StoppedInLoop == pc = "raised" /\ index <= Documents

SummaryWritten == pc \in {"log", "done"} \/ (pc = "raised" /\ index > Documents)

\* C2 as stated: every error of a document, from the model call or from the
\* scoring, is caught: a document whose scoring raises has the pair of zero
\* tuples, and the run never stops inside the loop, so it reaches the summary
\* with every document processed.
C2_EveryErrorCaught ==
    /\ \A j \in 1..Len(data_file) :
            (data_file[j].kind = "document" /\ ScoringRaised(j))
                => (RowFields(j)[4] = Zeros /\ RowFields(j)[5] = Zeros)
    /\ ~StoppedInLoop
    /\ SummaryWritten => counts[1] = Documents

\* C2, amended: an error of the scoring is caught: the document has the pair
\* of zero tuples, the loop goes on, and the summary is reached with every
\* document processed; an error of the model's get_keywords call is not
\* caught: the run stops at that document, before the summary, and it is the
\* only way the run stops inside the loop.
C2_ScoringErrorsCaught ==
    /\ \A j \in 1..Len(data_file) :
            (data_file[j].kind = "document" /\ ScoringRaised(j))
                => (RowFields(j)[4] = Zeros /\ RowFields(j)[5] = Zeros)
    /\ StoppedInLoop <=> Raised(predicted)
    /\ StoppedInLoop => \A j \in 1..Len(data_file) : data_file[j].kind = "document"
    /\ SummaryWritten => counts[1] = Documents

\* the scoring of the first of two documents raised, on an empty predicted
\* list, and the run went on to the second one and to the end
C2_Witness ==
    /\ pc = "done"
    /\ Documents = 2
    /\ RowFields(1)[3] = <<>>
    /\ ScoringRaised(1)
    /\ RowFields(1)[4] = Zeros
    /\ RowFields(1)[5] = Zeros
    /\ data_file[2].kind = "document"
    /\ data_file[3].kind = "mean"

\* C7: the file holds the rows of the documents in the order of the dataset,
\* each one written once its document has had its model call and its scoring
\* (it holds their results), and then, once the loop is over, one row of means,
\* the last one: N + 1 rows after a completed run.
C7_RowsThenSummary ==
    /\ \A j \in 1..Len(data_file) :
            IF j <= Documents
            THEN /\ data_file[j].kind = "document"
                 /\ RowFields(j)[1] = abstracts[j]
                 /\ RowFields(j)[2] = keywords_gold[j]
                 /\ RowFields(j)[3] \in EvalPredicted
                 /\ <<RowFields(j)[4], RowFields(j)[5]>>
                        = TryScores(keywords_gold[j], RowFields(j)[3], abstracts[j])
                 /\ j < index \/ (pc = "accumulate" /\ j = index
                                    /\ RowFields(j)[3] = predicted.v
                                    /\ <<RowFields(j)[4], RowFields(j)[5]>> = scores)
            ELSE /\ j = Documents + 1
                 /\ data_file[j].kind = "mean"
                 /\ SummaryWritten
    /\ Len(data_file) = (IF SummaryWritten THEN Documents + 1
                         ELSE IF pc = "accumulate" THEN index ELSE index - 1)
    /\ pc = "done" => Len(data_file) = Documents + 1

\* a completed run over two different documents
C7_Witness ==
    /\ pc = "done"
    /\ Documents = 2
    /\ Len(data_file) = 3
    /\ data_file[3].kind = "mean"
    /\ RowFields(1)[1] # RowFields(2)[1]
    /\ RowFields(1)[4] # Zeros

BaseResults == [j \in 1..(index - 1) |-> RowFields(j)[4]]

AdjustedResults == [j \in 1..(index - 1) |-> RowFields(j)[5]]

NonEmpty(tuple) == tuple # <<>>

\* C10 as stated: after k documents the base accumulator holds k tuples and
\* the adjusted one at most k; a document is in the adjusted accumulator
\* exactly when its adjusted result is not empty, which includes every
\* document whose scoring raised and excludes every document whose
\* AdjustedGold is empty; counts[1] <= counts[0] = N.
C10_AccumulatorInvariant ==
    /\ ~SummaryWritten =>
            /\ all_scores = BaseResults
            /\ Len(all_scores) = index - 1
            /\ Len(all_scores_adjust) <= index - 1
            /\ all_scores_adjust = SelectSeq(AdjustedResults, NonEmpty)
    /\ \A j \in 1..(index - 1) :
            /\ ScoringRaised(j) => (RowFields(j)[4] = Zeros /\ RowFields(j)[5] = Zeros)
            /\ AdjustedGold(RowFields(j)[2], RowFields(j)[1]) = <<>>
                    => RowFields(j)[5] = <<>>
    /\ SummaryWritten =>
            /\ counts[1] = Documents
            /\ counts[2] = Len(SelectSeq(AdjustedResults, NonEmpty))
            /\ counts[2] <= counts[1]

\* C10, amended: as above, but the adjusted accumulator excludes a document
\* whose AdjustedGold is empty only when its scoring did not raise; one whose
\* scoring raised is in it with the zero tuple, its AdjustedGold empty or not.
C10_AccumulatorInvariantUnlessRaised ==
    /\ ~SummaryWritten =>
            /\ all_scores = BaseResults
            /\ Len(all_scores) = index - 1
            /\ Len(all_scores_adjust) <= index - 1
            /\ all_scores_adjust = SelectSeq(AdjustedResults, NonEmpty)
    /\ \A j \in 1..(index - 1) :
            /\ ScoringRaised(j) => (RowFields(j)[4] = Zeros /\ RowFields(j)[5] = Zeros)
            /\ (~ScoringRaised(j) /\ AdjustedGold(RowFields(j)[2], RowFields(j)[1]) = <<>>)
                    => RowFields(j)[5] = <<>>
    /\ SummaryWritten =>
            /\ counts[1] = Documents
            /\ counts[2] = Len(SelectSeq(AdjustedResults, NonEmpty))
            /\ counts[2] <= counts[1]

\* two documents: the scoring of the first raised, with no adjusted gold
\* phrase, and it is in both accumulators; the second was scored, with no
\* adjusted gold phrase, and is in the base accumulator only
C10_Witness ==
    /\ counts = <<2, 1>>
    /\ ScoringRaised(1)
    /\ AdjustedGold(RowFields(1)[2], RowFields(1)[1]) = <<>>
    /\ RowFields(1)[5] = Zeros
    /\ ~ScoringRaised(2)
    /\ AdjustedGold(RowFields(2)[2], RowFields(2)[1]) = <<>>
    /\ RowFields(2)[5] = <<>>

====
